---- MODULE Spec2Model ----
(***************************************************************************)
(* LuminaDB, luminadb/query_builder/table_creation.py: the DDL generator   *)
(* (extract_table_creations) and the DDL parser (basic_extract,            *)
(* extract_table).                                                         *)
(*                                                                         *)
(* Text representation.  A Python str is a sequence of lexemes.  A lexeme  *)
(* is a maximal run of shlex word characters ("integer", "a", "5"), one    *)
(* non-word character (" ", ",", "(", ")", ":", "/"), or one quoted        *)
(* literal with its quotes ("'x'").  On such text                          *)
(*   - shlex(s) keeps every lexeme but the blanks,                         *)
(*   - s.split(",") cuts at the "," lexemes,                                *)
(*   - concatenation is \o.                                                *)
(* All keywords of the model are lower case, so str.lower() changes        *)
(* nothing and is not written.  No quoted literal holds a comma.           *)
(***************************************************************************)
EXTENDS Integers, Sequences, FiniteSets, TLC

VARIABLES
    src,             \* "columns": generate then parse; "ddl": parse a stored statement
    pc,              \* position in the pipeline
    columns,         \* the descriptors handed to Column(...) / the generator
    string,          \* TableCreationExtractor.string after extract()
    table_creation,  \* the CREATE TABLE statement handed to extract_table
    upheld,          \* basic_extract's ordered mapping name -> 8-list (+ appended actions)
    paren_wrap,      \* filter_extraction: placeholder key -> original span
    filtered,        \* filter_extraction: text with spans replaced by placeholders
    clause,          \* index of the next fragment of filtered.split(",")
    cols,            \* the list extract_table returns
    err              \* the exception raised, "" when none

vars == <<src, pc, columns, string, table_creation, upheld, paren_wrap,
          filtered, clause, cols, err>>

(***************************************************************************)
(* Bounds                                                                  *)
(***************************************************************************)
MaxCols == 2

(***************************************************************************)
(* Python values                                                           *)
(***************************************************************************)
None == <<"<None>">>

NoDefault == [kind |-> "none", int |-> 0, str |-> <<>>]
IntDefault(n) == [kind |-> "int", int |-> n, str |-> <<>>]
StrDefault(s) == [kind |-> "str", int |-> 0, str |-> s]

\* bool(value) of a default value
Truthy(d) ==
    \/ d.kind = "int" /\ d.int # 0
    \/ d.kind = "str" /\ d.str # <<>>

\* repr(value): one word lexeme for an int, one quoted lexeme for a str
repr(d) ==
    IF d.kind = "int"
    THEN (CASE d.int = 0 -> <<"0">>
            [] d.int = 5 -> <<"5">>
            [] OTHER -> <<"int">>)
    ELSE IF d.kind = "str"
    THEN (CASE d.str = <<>> -> <<"''">>
            [] d.str = <<"x">> -> <<"'x'">>
            [] OTHER -> <<"'str'">>)
    ELSE <<"None">>

\* the lexemes that open with ' or with "
SingleQuoted == {"''", "'x'", "'a'", "'b'", "'str'"}
DoubleQuoted == {"\"a\"", "\"b\""}

\* s.startswith("'") or s.startswith('"')
StartsWithQuote(s) == s # <<>> /\ s[1] \in (SingleQuoted \cup DoubleQuoted)

\* s.startswith("(")
StartsWithParen(s) == s # <<>> /\ s[1] = "("

\* the text between the quotes of a quoted lexeme
Unquoted(tok) ==
    CASE tok = "'x'" -> <<"x">>
      [] tok \in {"'a'", "\"a\""} -> <<"a">>
      [] tok \in {"'b'", "\"b\""} -> <<"b">>
      [] tok = "'str'" -> <<"str">>
      [] OTHER -> <<>>

\* s[1:-1]
StripEnds(s) ==
    IF Len(s) = 0 THEN <<>>
    ELSE IF Len(s) = 1
    THEN (IF s[1] \in (SingleQuoted \cup DoubleQuoted) THEN Unquoted(s[1])
          ELSE IF s[1] = "users" THEN <<"ser">> ELSE <<>>)
    ELSE IF s[1] \in (SingleQuoted \cup DoubleQuoted)
    THEN Unquoted(s[1]) \o SubSeq(s, 2, Len(s) - 1)
    ELSE SubSeq(s, 2, Len(s) - 1)

\* list(shlex(s))
Shlex(s) == SelectSeq(s, LAMBDA t : t # " ")

\* the pieces of s between the positions of cuts
SplitAt(s, cuts) ==
    LET Cut(k) == IF k = 0 THEN 0
                  ELSE IF k > Cardinality(cuts) THEN Len(s) + 1
                  ELSE CHOOSE p \in cuts : Cardinality({q \in cuts : q < p}) = k - 1
    IN  [k \in 1..(Cardinality(cuts) + 1) |-> SubSeq(s, Cut(k - 1) + 1, Cut(k) - 1)]

\* s.split(sep) for a one-lexeme separator
Split(s, sep) == SplitAt(s, {i \in 1..Len(s) : s[i] = sep})

\* "".join(pieces[lo .. hi])
RECURSIVE Flatten(_, _, _)
Flatten(pieces, lo, hi) ==
    IF lo > hi THEN <<>>
    ELSE IF lo = hi THEN pieces[lo]
    ELSE LET mid == (lo + hi) \div 2
         IN  Flatten(pieces, lo, mid) \o Flatten(pieces, mid + 1, hi)

\* list.index(x): position of the first occurrence, counted from 1
IndexOf(seq, x) == CHOOSE i \in 1..Len(seq) : seq[i] = x /\ \A j \in 1..(i - 1) : seq[j] # x

Contains(seq, x) == \E i \in 1..Len(seq) : seq[i] = x

\* s.find("(") + 1 counted from 1: 0 when there is no "("
Find(s, x) == IF Contains(s, x) THEN IndexOf(s, x) ELSE 0

(***************************************************************************)
(* Collaborators outside table_creation.py                                 *)
(***************************************************************************)
SQLITETYPES == {"integer", "real", "text", "blob"}

DEFAULT_MAPPINGS == [t \in SQLITETYPES |-> t]

SQL_ACTIONS ==
    [a \in {<<"restrict">>, <<"cascade">>, <<"set", " ", "null">>,
            <<"set", " ", "default">>, <<"no", " ", "action">>} |-> a]

\* Column.__init__: the construction error for auto_increment
ColumnRejected(c) ==
    c.auto_increment /\ (c.type # "integer" \/ ~c.primary)

\* Column.source, Column.source_column: the two halves of "table/column"
Source(c) == Split(c.raw_source, "/")[1]
SourceColumn(c) == Split(c.raw_source, "/")[2]

(***************************************************************************)
(* The generator                                                           *)
(***************************************************************************)
\* SQL_ACTIONS.get(action, action)
_iterate_sql_action(action) ==
    IF action \in DOMAIN SQL_ACTIONS THEN SQL_ACTIONS[action] ELSE action

\* DEFAULT_MAPPINGS.copy(), updated with the caller's mappings when given
_get_type_mappings(type_mappings) ==
    [k \in (DOMAIN DEFAULT_MAPPINGS) \cup (DOMAIN type_mappings) |->
        IF k \in DOMAIN type_mappings THEN type_mappings[k] ELSE DEFAULT_MAPPINGS[k]]

\* _process_column_constraints with the inline marker on every primary column
InlinePrimaryRegardlessOfCount(column, ctype, primary_count) ==
    LET c0 == <<" ", column.name, " ", ctype>>
        c1 == IF ~column.nullable THEN c0 \o <<" ", "not", " ", "null">> ELSE c0
        c2 == IF column.unique THEN c1 \o <<" ", "unique">> ELSE c1
        c3 == IF Truthy(column.default)
              THEN c2 \o <<" ", "default", " ">> \o repr(column.default)
              ELSE c2
    IN  IF column.primary
        THEN (IF column.auto_increment /\ primary_count = 1
              THEN c3 \o <<" ", "primary", " ", "key", " ", "autoincrement">>
              ELSE c3 \o <<" ", "primary", " ", "key">>)
        ELSE c3

\* _process_column_constraints with the suffix outside the sole-primary test
AutoincrementOutsidePrimaryTest(column, ctype, primary_count) ==
    LET c0 == <<" ", column.name, " ", ctype>>
        c1 == IF ~column.nullable THEN c0 \o <<" ", "not", " ", "null">> ELSE c0
        c2 == IF column.unique THEN c1 \o <<" ", "unique">> ELSE c1
        c3 == IF Truthy(column.default)
              THEN c2 \o <<" ", "default", " ">> \o repr(column.default)
              ELSE c2
        c4 == IF column.primary /\ primary_count = 1
              THEN c3 \o <<" ", "primary", " ", "key">>
              ELSE c3
    IN  IF column.auto_increment THEN c4 \o <<" ", "autoincrement">> ELSE c4

\* the text of one column definition, with its leading blank
_process_column_constraints(column, ctype, primary_count) ==
    LET c0 == <<" ", column.name, " ", ctype>>
        c1 == IF ~column.nullable THEN c0 \o <<" ", "not", " ", "null">> ELSE c0
        c2 == IF column.unique THEN c1 \o <<" ", "unique">> ELSE c1
        c3 == IF Truthy(column.default)
              THEN c2 \o <<" ", "default", " ">> \o repr(column.default)
              ELSE c2
    IN  IF column.primary /\ primary_count = 1
        THEN (IF column.auto_increment
              THEN c3 \o <<" ", "primary", " ", "key", " ", "autoincrement">>
              ELSE c3 \o <<" ", "primary", " ", "key">>)
        ELSE c3

\* the loop over the columns: the text, the table-level primaries, the foreigns
RECURSIVE _iterate_etbc_step1(_, _, _, _, _, _)
_iterate_etbc_step1(columns_, string_, primaries, foreigns, maps, primary_count) ==
    IF columns_ = <<>>
    THEN [string |-> string_, primaries |-> primaries, foreigns |-> foreigns]
    ELSE LET column == Head(columns_)
             ctype == IF column.type \in DOMAIN maps THEN maps[column.type] ELSE column.type
         IN  _iterate_etbc_step1(
                 Tail(columns_),
                 string_ \o _process_column_constraints(column, ctype, primary_count) \o <<",">>,
                 IF column.primary /\ primary_count # 1
                 THEN Append(primaries, column) ELSE primaries,
                 IF column.raw_source # None /\ column.raw_source # <<>>
                 THEN Append(foreigns, column) ELSE foreigns,
                 maps, primary_count)

\* ', '.join(col.name for col in primaries)
RECURSIVE JoinNames(_)
JoinNames(primaries) ==
    IF primaries = <<>> THEN <<>>
    ELSE IF Len(primaries) = 1 THEN <<primaries[1].name>>
    ELSE <<primaries[1].name, ",", " ">> \o JoinNames(Tail(primaries))

\* TableCreationExtractor.process_columns
process_columns(columns_, type_mappings) ==
    _iterate_etbc_step1(columns_, <<>>, <<>>, <<>>, _get_type_mappings(type_mappings),
                        Cardinality({i \in 1..Len(columns_) : columns_[i].primary}))

\* TableCreationExtractor.add_primary_keys
add_primary_keys(string_, primaries) ==
    IF primaries # <<>>
    THEN string_ \o <<" ", "primary", " ", "key", " ", "(">> \o JoinNames(primaries)
                 \o <<")", ",">>
    ELSE string_

\* TableCreationExtractor.add_foreign_keys
RECURSIVE add_foreign_keys(_, _)
add_foreign_keys(string_, foreigns) ==
    IF foreigns = <<>> THEN string_
    ELSE LET column == Head(foreigns)
         IN  add_foreign_keys(
                 string_ \o <<" ", "foreign", " ", "key", " ", "(", column.name, ")", " ",
                              "references", " ">>
                         \o Source(column) \o <<" ", "(">> \o SourceColumn(column)
                         \o <<")", " ", "on", " ", "delete", " ">>
                         \o _iterate_sql_action(column.on_delete)
                         \o <<" ", "on", " ", "update", " ">>
                         \o _iterate_sql_action(column.on_update) \o <<",">>,
                 Tail(foreigns))

\* TableCreationExtractor.extract, called with type_mappings = None
extract_table_creations(columns_) ==
    LET step1 == process_columns(columns_, <<>>)
        full == add_foreign_keys(add_primary_keys(step1.string, step1.primaries),
                                 step1.foreigns)
    IN  SubSeq(full, 2, Len(full) - 1)

(***************************************************************************)
(* The parser, phase 1: basic_extract                                      *)
(*                                                                         *)
(* upheld is the insertion-ordered dict as a sequence of its values; the   *)
(* value of a key is the 8-list [name, type_, foreign, sources, primary,   *)
(* unique, nullable, defaults], Python index k at position k + 1, and the  *)
(* key is the name at position 1.                                          *)
(***************************************************************************)
HasKey(upheld_, key) == \E i \in 1..Len(upheld_) : upheld_[i][1] = key

KeyIndex(upheld_, key) == CHOOSE i \in 1..Len(upheld_) : upheld_[i][1] = key

\* upheld[name] = value: in place for a known key, at the end for a new one
SetItem(upheld_, value) ==
    IF HasKey(upheld_, value[1])
    THEN [upheld_ EXCEPT ![KeyIndex(upheld_, value[1])] = value]
    ELSE Append(upheld_, value)

\* base_columns[k] for a Python index k that may be -1
PyItem(base_columns, k) ==
    IF k < 0 THEN base_columns[Len(base_columns) + 1 + k] ELSE base_columns[k + 1]

\* the token loop of one column fragment raises IndexError
TokenLoopFails(base_columns) ==
    \/ /\ Contains(base_columns, "defaults")
       /\ IndexOf(base_columns, "defaults") + 1 > Len(base_columns)
    \/ /\ Contains(base_columns, "reference")
       /\ IndexOf(base_columns, "reference") + 2 > Len(base_columns)

\* the 8-list the token loop builds for a fragment of more than two tokens
TokenLoop(base_columns) ==
    LET found == IF Contains(base_columns, "defaults")
                 THEN base_columns[IndexOf(base_columns, "defaults") + 1]
                 ELSE "<None>"
        defaults == IF found = "<None>" THEN None
                    ELSE IF found \notin DoubleQuoted \/ found \notin SingleQuoted
                    THEN <<found>>
                    ELSE StripEnds(<<found>>)
        primary == Contains(base_columns, "primary")
        foreign == Contains(base_columns, "foreign")
        sources == IF Contains(base_columns, "reference")
                   THEN LET tb_index == IndexOf(base_columns, "reference") + 1
                        IN  <<base_columns[tb_index], "/">>
                            \o StripEnds(<<base_columns[tb_index + 1]>>)
                   ELSE None
        notnull == IF Contains(base_columns, "null")
                   THEN PyItem(base_columns, IndexOf(base_columns, "null") - 2) = "not"
                   ELSE FALSE
        unique == Contains(base_columns, "unique")
    IN  << <<base_columns[1]>>, <<base_columns[2]>>, foreign, sources, primary, unique,
           ~notnull, IF defaults # <<>> THEN defaults ELSE None >>

\* the loop over data.split(","): stops at the first fragment whose second
\* token is no type
RECURSIVE ExtractLoop(_, _)
ExtractLoop(fragments, upheld_) ==
    IF fragments = <<>> THEN [upheld |-> upheld_, err |-> ""]
    ELSE LET base_columns == Shlex(Head(fragments))
         IN  IF Len(base_columns) < 2 THEN [upheld |-> upheld_, err |-> "IndexError"]
             ELSE IF base_columns[2] \notin SQLITETYPES
             THEN [upheld |-> upheld_, err |-> ""]
             ELSE IF Len(base_columns) = 2
             THEN ExtractLoop(Tail(fragments),
                      SetItem(upheld_, << <<base_columns[1]>>, <<base_columns[2]>>, FALSE,
                                          None, FALSE, FALSE, TRUE, None >>))
             ELSE IF TokenLoopFails(base_columns)
             THEN [upheld |-> upheld_, err |-> "IndexError"]
             ELSE ExtractLoop(Tail(fragments), SetItem(upheld_, TokenLoop(base_columns)))

\* table_creation[table_creation.find("(") + 1 : -1]
Data(table_creation_) ==
    SubSeq(table_creation_, Find(table_creation_, "(") + 1, Len(table_creation_) - 1)

basic_extract(table_creation_) == ExtractLoop(Split(Data(table_creation_), ","), <<>>)

(***************************************************************************)
(* The Lexer / Paren-Wrapper: filter_extraction                            *)
(*                                                                         *)
(* Every top-level parenthesised span becomes the placeholder ":wrapN", N  *)
(* counting the spans from 0, and paren_wrap maps the placeholder to the   *)
(* original span with its parentheses.  Every quoted literal becomes the   *)
(* placeholder ":quoted".  shlex cuts ":wrapN" into ":" and "wrapN".       *)
(***************************************************************************)
WrapWords == <<"wrap0", "wrap1", "wrap2", "wrap3", "wrap4", "wrap5", "wrap6", "wrap7",
               "wrap8", "wrap9", "wrap10", "wrap11">>

\* s.startswith(":wrap")
StartsWithWrap(s) ==
    Len(s) >= 2 /\ s[1] = ":" /\ \E n \in 1..Len(WrapWords) : s[2] = WrapWords[n]

\* the nesting depth of position i, both parentheses of a span included
Depth(s, i) ==
    Cardinality({j \in 1..i : s[j] = "("}) - Cardinality({j \in 1..(i - 1) : s[j] = ")"})

filter_extraction(string_) ==
    LET opens == {i \in 1..Len(string_) : string_[i] = "(" /\ Depth(string_, i) = 1}
        Key(i) == <<":", WrapWords[Cardinality({j \in opens : j < i}) + 1]>>
        Close(i) == CHOOSE j \in i..Len(string_) :
                        /\ string_[j] = ")" /\ Depth(string_, j) = 1
                        /\ \A k \in i..(j - 1) : ~(string_[k] = ")" /\ Depth(string_, k) = 1)
        piece == [i \in 1..Len(string_) |->
                     IF i \in opens THEN Key(i)
                     ELSE IF Depth(string_, i) > 0 THEN <<>>
                     ELSE IF string_[i] \in (SingleQuoted \cup DoubleQuoted)
                     THEN <<":", "quoted">>
                     ELSE <<string_[i]>>]
    IN  [paren_wrap |-> [key \in {Key(i) : i \in opens} |->
                            LET i == CHOOSE o \in opens : Key(o) = key
                            IN  SubSeq(string_, i, Close(i))],
         filtered |-> Flatten(piece, 1, Len(string_))]

(***************************************************************************)
(* The parser, phase 2: the table-level scan of extract_table              *)
(***************************************************************************)
\* "".join(column_shlexed[next_ : next_ + 2]) for the token at position tindex
StrWrap(column_shlexed, tindex) ==
    SubSeq(column_shlexed, tindex + 2,
           IF tindex + 3 <= Len(column_shlexed) THEN tindex + 3 ELSE Len(column_shlexed))

\* name[1:-1] if name.startswith("'") or name.startswith('"') else name
Bare(name) == IF StartsWithQuote(name) THEN StripEnds(name) ELSE name

\* upheld[key][4] = True for every name, KeyError at the first unknown key
RECURSIVE MarkPrimary(_, _)
MarkPrimary(upheld_, names) ==
    IF names = <<>> THEN [upheld |-> upheld_, err |-> ""]
    ELSE LET key == Bare(Head(names))
         IN  IF ~HasKey(upheld_, key) THEN [upheld |-> upheld_, err |-> "KeyError"]
             ELSE MarkPrimary([upheld_ EXCEPT ![KeyIndex(upheld_, key)][5] = TRUE],
                              Tail(names))

\* OnPrimary preferring the inline markers without comparing the two sets
OnPrimaryMissingCompare(upheld_, paren_wrap_, column_shlexed, tindex) ==
    LET str_wrap == StrWrap(column_shlexed, tindex)
        wrap == IF StartsWithWrap(str_wrap) THEN paren_wrap_[str_wrap] ELSE str_wrap
        names == IF StartsWithParen(wrap) THEN Split(StripEnds(wrap), ",")
                 ELSE Split(wrap, ",")
        inline_primaries == {upheld_[i][1] : i \in {j \in 1..Len(upheld_) : upheld_[j][5]}}
    IN  IF StartsWithWrap(str_wrap) /\ str_wrap \notin DOMAIN paren_wrap_
        THEN [upheld |-> upheld_, err |-> "KeyError"]
        ELSE IF inline_primaries # {}
        THEN [upheld |-> upheld_, err |-> ""]
        ELSE MarkPrimary(upheld_, names)

\* the branch of the token "primary" at position tindex
OnPrimary(upheld_, paren_wrap_, column_shlexed, tindex) ==
    LET str_wrap == StrWrap(column_shlexed, tindex)
        wrap == IF StartsWithWrap(str_wrap) THEN paren_wrap_[str_wrap] ELSE str_wrap
        names == IF StartsWithParen(wrap) THEN Split(StripEnds(wrap), ",")
                 ELSE Split(wrap, ",")
        inline_primaries == {upheld_[i][1] : i \in {j \in 1..Len(upheld_) : upheld_[j][5]}}
        table_level == {Bare(names[i]) : i \in 1..Len(names)}
    IN  IF StartsWithWrap(str_wrap) /\ str_wrap \notin DOMAIN paren_wrap_
        THEN [upheld |-> upheld_, err |-> "KeyError"]
        ELSE IF inline_primaries # {}
        THEN (IF inline_primaries # table_level
              THEN [upheld |-> upheld_, err |-> "ValueError: Conflicting primary key definitions"]
              ELSE [upheld |-> upheld_, err |-> ""])
        ELSE MarkPrimary(upheld_, names)

\* the branch of the token "foreign" at position tindex
OnForeign(upheld_, paren_wrap_, column_shlexed, tindex) ==
    LET str_wrap == StrWrap(column_shlexed, tindex)
        wrap == IF StartsWithWrap(str_wrap) THEN paren_wrap_[str_wrap] ELSE str_wrap
        name == IF StartsWithParen(wrap) THEN StripEnds(wrap) ELSE wrap
        tb_index == tindex + 5
        source_key == <<":", column_shlexed[tb_index + 2]>>
        sources == <<column_shlexed[tb_index], "/">> \o StripEnds(paren_wrap_[source_key])
        k == KeyIndex(upheld_, name)
        linked == [upheld_ EXCEPT ![k][4] = sources, ![k][3] = TRUE]
        deleted == IF Contains(column_shlexed, "delete")
                   THEN [linked EXCEPT ![k] =
                            Append(@, <<column_shlexed[IndexOf(column_shlexed, "delete") + 1]>>)]
                   ELSE linked
        updated == IF Contains(column_shlexed, "update")
                   THEN [deleted EXCEPT ![k] =
                            Append(@, <<column_shlexed[IndexOf(column_shlexed, "update") + 1]>>)]
                   ELSE deleted
    IN  IF StartsWithWrap(str_wrap) /\ str_wrap \notin DOMAIN paren_wrap_
        THEN [upheld |-> upheld_, err |-> "KeyError"]
        ELSE IF tb_index + 2 > Len(column_shlexed)
        THEN [upheld |-> upheld_, err |-> "IndexError"]
        ELSE IF source_key \notin DOMAIN paren_wrap_ \/ ~HasKey(upheld_, name)
        THEN [upheld |-> upheld_, err |-> "KeyError"]
        ELSE IF \/ /\ Contains(column_shlexed, "delete")
                   /\ IndexOf(column_shlexed, "delete") + 1 > Len(column_shlexed)
                \/ /\ Contains(column_shlexed, "update")
                   /\ IndexOf(column_shlexed, "update") + 1 > Len(column_shlexed)
        THEN [upheld |-> upheld_, err |-> "IndexError"]
        ELSE [upheld |-> updated, err |-> ""]

\* the loop over the tokens of one clause, from position tindex on
RECURSIVE ScanTokens(_, _, _, _)
ScanTokens(upheld_, paren_wrap_, column_shlexed, tindex) ==
    IF tindex > Len(column_shlexed) THEN [upheld |-> upheld_, err |-> ""]
    ELSE IF column_shlexed[tindex] = "primary"
    THEN OnPrimary(upheld_, paren_wrap_, column_shlexed, tindex)
    ELSE IF column_shlexed[tindex] = "foreign"
    THEN LET after == OnForeign(upheld_, paren_wrap_, column_shlexed, tindex)
         IN  IF after.err # "" THEN after
             ELSE ScanTokens(after.upheld, paren_wrap_, column_shlexed, tindex + 1)
    ELSE ScanTokens(upheld_, paren_wrap_, column_shlexed, tindex + 1)

\* Column(*upheld_column): arguments 9 and 10 are on_delete and on_update
Column(v) ==
    [name |-> v[1], type |-> v[2], foreign |-> v[3], raw_source |-> v[4],
     primary |-> v[5], unique |-> v[6], nullable |-> v[7], default |-> v[8],
     on_delete |-> IF Len(v) >= 9 THEN v[9] ELSE None,
     on_update |-> IF Len(v) >= 10 THEN v[10] ELSE None]

(***************************************************************************)
(* Inputs                                                                  *)
(***************************************************************************)
Names == <<"a", "b", "c", "d">>

UsersId == <<"users", "/", "id">>

\* the arguments of Column(...) but the name
Shape(type, nullable, unique, primary, auto_increment, default, raw_source, on_delete, on_update) ==
    [type |-> type, nullable |-> nullable, unique |-> unique, primary |-> primary,
     auto_increment |-> auto_increment, default |-> default, raw_source |-> raw_source,
     on_delete |-> on_delete, on_update |-> on_update]

Plain(type, nullable, unique, primary, auto_increment, default) ==
    Shape(type, nullable, unique, primary, auto_increment, default, None,
          <<"cascade">>, <<"cascade">>)

Shapes ==
    { Plain("integer", TRUE, FALSE, FALSE, FALSE, NoDefault),
      Plain("text", FALSE, FALSE, FALSE, FALSE, NoDefault),
      Plain("text", TRUE, TRUE, FALSE, FALSE, NoDefault),
      Plain("integer", TRUE, FALSE, TRUE, FALSE, NoDefault),
      Plain("text", TRUE, FALSE, TRUE, FALSE, NoDefault),
      Plain("integer", TRUE, FALSE, TRUE, TRUE, NoDefault),
      Plain("integer", FALSE, TRUE, TRUE, FALSE, IntDefault(5)),
      Plain("integer", FALSE, TRUE, FALSE, FALSE, IntDefault(5)),
      Plain("integer", TRUE, FALSE, FALSE, FALSE, IntDefault(0)),
      Plain("text", TRUE, FALSE, FALSE, FALSE, StrDefault(<<"x">>)),
      Plain("text", TRUE, FALSE, FALSE, FALSE, StrDefault(<<>>)),
      Plain("text", TRUE, FALSE, FALSE, TRUE, NoDefault),
      Plain("integer", TRUE, FALSE, FALSE, TRUE, NoDefault),
      Shape("integer", TRUE, FALSE, FALSE, FALSE, NoDefault, UsersId,
            <<"cascade">>, <<"restrict">>),
      Shape("integer", TRUE, FALSE, TRUE, FALSE, NoDefault, UsersId,
            <<"cascade">>, <<"restrict">>),
      Shape("integer", FALSE, FALSE, FALSE, FALSE, NoDefault, UsersId,
            <<"set", " ", "null">>, <<"cascade">>) }

Named(shape, name) ==
    [name |-> name, type |-> shape.type, nullable |-> shape.nullable,
     unique |-> shape.unique, primary |-> shape.primary,
     auto_increment |-> shape.auto_increment, default |-> shape.default,
     raw_source |-> shape.raw_source, on_delete |-> shape.on_delete,
     on_update |-> shape.on_update]

\* the column lists of 1..MaxCols columns, the i-th column named Names[i]
ColumnLists ==
    UNION { { [i \in 1..n |-> Named(f[i], Names[i])] : f \in [1..n -> Shapes] }
            : n \in 1..MaxCols }

CreateTable(body) == <<"create", " ", "table", " ", "t", " ", "(">> \o body \o <<")">>

\* stored statements that did not come from the generator
InlineAndTableAB ==
    CreateTable(<<"a", " ", "integer", " ", "primary", " ", "key", ",", " ", "b", " ",
                  "integer", ",", " ", "primary", " ", "key", " ", "(", "a", ",", " ",
                  "b", ")">>)
InlineAndTableABTight ==
    CreateTable(<<"a", " ", "integer", " ", "primary", " ", "key", ",", " ", "b", " ",
                  "text", " ", "not", " ", "null", ",", " ", "primary", " ", "key", " ",
                  "(", "a", ",", "b", ")">>)
InlineAndTableA ==
    CreateTable(<<"a", " ", "integer", " ", "primary", " ", "key", ",", " ", "b", " ",
                  "integer", ",", " ", "primary", " ", "key", " ", "(", "a", ")">>)
TableOnlyA ==
    CreateTable(<<"a", " ", "integer", ",", " ", "b", " ", "integer", ",", " ",
                  "primary", " ", "key", " ", "(", "a", ")">>)
TableOnlyABTight ==
    CreateTable(<<"a", " ", "integer", ",", " ", "b", " ", "integer", ",", " ",
                  "primary", " ", "key", " ", "(", "a", ",", "b", ")">>)
QuotedDefault ==
    CreateTable(<<"a", " ", "integer", " ", "default", " ", "5", ",", " ", "b", " ",
                  "text", " ", "default", " ", "'x'">>)

StoredStatements ==
    {InlineAndTableAB, InlineAndTableABTight, InlineAndTableA, TableOnlyA,
     TableOnlyABTight, QuotedDefault}

(***************************************************************************)
(* The state machine                                                       *)
(***************************************************************************)
Init ==
    /\ \/ /\ src = "columns"
          /\ columns \in ColumnLists
          /\ table_creation = <<>>
          /\ pc = "new"
       \/ /\ src = "ddl"
          /\ columns = <<>>
          /\ table_creation \in StoredStatements
          /\ pc = "stored"
    /\ string = <<>>
    /\ upheld = <<>>
    /\ paren_wrap = <<>>
    /\ filtered = <<>>
    /\ clause = 0
    /\ cols = None
    /\ err = ""

\* Column(...) for every descriptor of the list
ConstructColumns ==
    /\ pc = "new"
    /\ IF \E i \in 1..Len(columns) : ColumnRejected(columns[i])
       THEN pc' = "raised" /\ err' = "ValueError: auto_increment"
       ELSE pc' = "constructed" /\ err' = err
    /\ UNCHANGED <<src, columns, string, table_creation, upheld, paren_wrap, filtered,
                   clause, cols>>

\* extract_table_creations(columns)
ExtractTableCreations ==
    /\ pc = "constructed"
    /\ string' = extract_table_creations(columns)
    /\ pc' = "generated"
    /\ UNCHANGED <<src, columns, table_creation, upheld, paren_wrap, filtered, clause,
                   cols, err>>

\* the collaborator embeds the body in CREATE TABLE t ( body ) and stores it
StoreStatement ==
    /\ pc = "generated"
    /\ table_creation' = CreateTable(string)
    /\ pc' = "stored"
    /\ UNCHANGED <<src, columns, string, upheld, paren_wrap, filtered, clause, cols, err>>

\* extract_table: cols, upheld = basic_extract(table_creation)
BasicExtract ==
    /\ pc = "stored"
    /\ LET r == basic_extract(table_creation)
       IN  /\ upheld' = r.upheld
           /\ err' = r.err
           /\ pc' = IF r.err = "" THEN "phase1" ELSE "raised"
    /\ UNCHANGED <<src, columns, string, table_creation, paren_wrap, filtered, clause,
                   cols>>

\* extract_table: _, paren_wrap, filtered = filter_extraction(data, shlexed)
FilterExtraction ==
    /\ pc = "phase1"
    /\ LET r == filter_extraction(Data(table_creation))
       IN  /\ paren_wrap' = r.paren_wrap
           /\ filtered' = r.filtered
    /\ clause' = 1
    /\ pc' = "phase2"
    /\ UNCHANGED <<src, columns, string, table_creation, upheld, cols, err>>

\* extract_table: one round of the loop over filtered.split(",")
ScanClause ==
    /\ pc = "phase2"
    /\ clause <= Len(Split(filtered, ","))
    /\ LET r == ScanTokens(upheld, paren_wrap, Shlex(Split(filtered, ",")[clause]), 1)
       IN  /\ upheld' = r.upheld
           /\ err' = r.err
           /\ pc' = IF r.err = "" THEN "phase2" ELSE "raised"
    /\ clause' = clause + 1
    /\ UNCHANGED <<src, columns, string, table_creation, paren_wrap, filtered, cols>>

\* extract_table: cols.append(Column(*upheld_column)) for every entry; return cols
BuildColumns ==
    /\ pc = "phase2"
    /\ clause > Len(Split(filtered, ","))
    /\ cols' = [i \in 1..Len(upheld) |-> Column(upheld[i])]
    /\ pc' = "returned"
    /\ UNCHANGED <<src, columns, string, table_creation, upheld, paren_wrap, filtered,
                   clause, err>>

Next ==
    \/ ConstructColumns
    \/ ExtractTableCreations
    \/ StoreStatement
    \/ BasicExtract
    \/ FilterExtraction
    \/ ScanClause
    \/ BuildColumns

Spec == Init /\ [][Next]_vars

(***************************************************************************)
(* Vocabulary of the properties                                            *)
(***************************************************************************)
Conflict == "ValueError: Conflicting primary key definitions"

Final == pc \in {"returned", "raised"}

\* every Column(...) succeeded and the generator has produced its text
Generated ==
    /\ src = "columns"
    /\ pc \notin {"new", "constructed"}
    /\ err # "ValueError: auto_increment"

PrimaryCount == Cardinality({i \in 1..Len(columns) : columns[i].primary})

\* the tokens of the generated text and of its i-th column definition
GeneratedTokens == Shlex(string)
ColumnDefinition(i) == Shlex(Split(string, ",")[i])

PositionsOf(tokens, word) == {p \in 1..Len(tokens) : tokens[p] = word}

\* where a primary-key clause starts: "primary key" not followed / followed by "("
InlineClauses ==
    {p \in 1..(Len(GeneratedTokens) - 1) :
        /\ GeneratedTokens[p] = "primary" /\ GeneratedTokens[p + 1] = "key"
        /\ (p + 2 > Len(GeneratedTokens) \/ GeneratedTokens[p + 2] # "(")}
TableClauses ==
    {p \in 1..(Len(GeneratedTokens) - 2) :
        /\ GeneratedTokens[p] = "primary" /\ GeneratedTokens[p + 1] = "key"
        /\ GeneratedTokens[p + 2] = "("}

\* the names of the primary columns in input order, as "a , b"
RECURSIVE PrimaryNameList(_)
PrimaryNameList(i) ==
    IF i > Len(columns) THEN <<>>
    ELSE IF ~columns[i].primary THEN PrimaryNameList(i + 1)
    ELSE IF \E j \in (i + 1)..Len(columns) : columns[j].primary
    THEN <<columns[i].name, ",">> \o PrimaryNameList(i + 1)
    ELSE <<columns[i].name>>

\* the top-level clauses of the stored statement, tokenised
StatementClauses ==
    LET body == Data(table_creation)
        all == SplitAt(body, {i \in 1..Len(body) : body[i] = "," /\ Depth(body, i) = 0})
    IN  {Shlex(all[k]) : k \in 1..Len(all)}

ColumnClauses == {c \in StatementClauses : Len(c) >= 2 /\ c[2] \in SQLITETYPES}

\* the columns with an inline marker, and the column set of each table-level clause
InlinePrimaryNames == {<<c[1]>> : c \in {d \in ColumnClauses : Contains(d, "primary")}}
TableLevelSets ==
    {{Bare(<<c[k]>>) : k \in {j \in 4..(Len(c) - 1) : c[j] # ","}} :
        c \in {d \in StatementClauses :
                  Len(d) >= 3 /\ d[1] = "primary" /\ d[2] = "key" /\ d[3] = "("}}

\* the default a parsed descriptor must carry for the input default d
SameDefault(d, parsed) ==
    \/ d.kind = "none" /\ parsed = None
    \/ d.kind = "int" /\ parsed = repr(d)
    \/ d.kind = "str" /\ parsed \in {repr(d), d.str}

(***************************************************************************)
(* C1  Round trip: parsing the statement built from the generated body     *)
(* returns, without raising, one descriptor per input column, in order,    *)
(* with the same name, type, nullable, unique, primary, default and        *)
(* foreign reference.                                                      *)
(***************************************************************************)
RoundTripIdentity ==
    (Generated /\ Final) =>
        /\ pc = "returned"
        /\ Len(cols) = Len(columns)
        /\ \A i \in 1..Len(columns) :
              /\ cols[i].name = <<columns[i].name>>
              /\ cols[i].type = <<columns[i].type>>
              /\ cols[i].nullable = columns[i].nullable
              /\ cols[i].unique = columns[i].unique
              /\ cols[i].primary = columns[i].primary
              /\ SameDefault(columns[i].default, cols[i].default)
              /\ cols[i].raw_source = columns[i].raw_source
              /\ cols[i].foreign = (columns[i].raw_source # None)

(***************************************************************************)
(* C2  Single primary-key clause: the generated text holds no primary-key  *)
(* clause when no column is primary, one inline clause on the primary      *)
(* column when exactly one is, one table-level clause and no inline one    *)
(* when two or more are.                                                   *)
(***************************************************************************)
SinglePrimaryKeyClause ==
    Generated =>
        /\ PrimaryCount = 0 => (InlineClauses = {} /\ TableClauses = {})
        /\ PrimaryCount = 1 =>
              /\ Cardinality(InlineClauses) = 1 /\ TableClauses = {}
              /\ \A i \in 1..Len(columns) :
                    Contains(ColumnDefinition(i), "primary") <=> columns[i].primary
        /\ PrimaryCount >= 2 => (InlineClauses = {} /\ Cardinality(TableClauses) = 1)

SinglePrimaryKeyClauseWitness ==
    Generated /\ PrimaryCount >= 2 /\ Cardinality(TableClauses) = 1 /\ InlineClauses = {}

(***************************************************************************)
(* C3  Composite primary key: for two or more primary columns the          *)
(* generator emits one table-level clause naming them in input order and   *)
(* no inline marker, and the parser returns every one of them with         *)
(* primary = true and every other column with primary = false.             *)
(***************************************************************************)
CompositePrimaryRoundTrip ==
    (Generated /\ PrimaryCount >= 2) =>
        /\ InlineClauses = {}
        /\ \E p \in TableClauses :
              SubSeq(GeneratedTokens, p, p + 3 + Len(PrimaryNameList(1)))
                  = <<"primary", "key", "(">> \o PrimaryNameList(1) \o <<")">>
        /\ Final =>
              /\ pc = "returned"
              /\ Len(cols) = Len(columns)
              /\ \A i \in 1..Len(columns) : cols[i].primary = columns[i].primary

(***************************************************************************)
(* C4  Foreign key: a column referencing users(id) with on_delete cascade  *)
(* and on_update restrict gets its foreign-key clause after the column     *)
(* definitions, and the parser returns it with foreign = true, source      *)
(* users/id and both actions, every other column without foreign fields.   *)
(***************************************************************************)
ForeignKeyPreservation ==
    \A i \in 1..Len(columns) :
        (/\ Generated
         /\ columns[i].raw_source = UsersId
         /\ columns[i].on_delete = <<"cascade">>
         /\ columns[i].on_update = <<"restrict">>) =>
            /\ \E k \in (Len(columns) + 1)..Len(Split(string, ",")) :
                  Shlex(Split(string, ",")[k])
                      = <<"foreign", "key", "(", columns[i].name, ")", "references",
                          "users", "(", "id", ")", "on", "delete", "cascade", "on",
                          "update", "restrict">>
            /\ Final =>
                  /\ pc = "returned"
                  /\ Len(cols) = Len(columns)
                  /\ cols[i].foreign /\ cols[i].raw_source = UsersId
                  /\ cols[i].on_delete = <<"cascade">>
                  /\ cols[i].on_update = <<"restrict">>
                  /\ \A j \in 1..Len(columns) :
                        columns[j].raw_source = None =>
                            (~cols[j].foreign /\ cols[j].raw_source = None)

(***************************************************************************)
(* C5  Conflict detection: a statement with an inline primary key on a     *)
(* and a table-level primary key over {a, b} makes extract_table raise     *)
(* the conflicting-primary-key error; no descriptor list is returned.      *)
(***************************************************************************)
ConflictDetected ==
    (InlinePrimaryNames = {<<"a">>} /\ TableLevelSets = {{<<"a">>, <<"b">>}}) =>
        /\ pc # "returned"
        /\ cols = None
        /\ pc = "raised" => err = Conflict

ConflictDetectedWitness ==
    /\ InlinePrimaryNames = {<<"a">>} /\ TableLevelSets = {{<<"a">>, <<"b">>}}
    /\ pc = "raised" /\ err = Conflict

(***************************************************************************)
(* C6  Autoincrement validity: no text is generated from a list holding    *)
(* an auto_increment column that is not of integer type or not the sole    *)
(* primary column; such a list is rejected with an error.                  *)
(***************************************************************************)
AutoincrementValidity ==
    Generated =>
        \A i \in 1..Len(columns) :
            columns[i].auto_increment =>
                (columns[i].type = "integer" /\ columns[i].primary /\ PrimaryCount = 1)

(***************************************************************************)
(* C7  Autoincrement emission: a column definition carries 'autoincrement' *)
(* exactly when the column is auto_increment and the sole primary column,  *)
(* and the word then directly follows that definition's 'primary key'.     *)
(***************************************************************************)
AutoincrementEmission ==
    Generated =>
        /\ \A i \in 1..Len(columns) :
              LET definition == ColumnDefinition(i)
                  marks == PositionsOf(definition, "autoincrement")
              IN  /\ definition[1] = columns[i].name
                  /\ (marks # {}) <=>
                        (/\ columns[i].auto_increment /\ columns[i].primary
                         /\ PrimaryCount = 1)
                  /\ \A p \in marks :
                        /\ p = Len(definition) /\ p >= 5
                        /\ definition[p - 2] = "primary" /\ definition[p - 1] = "key"
        /\ Cardinality(PositionsOf(GeneratedTokens, "autoincrement"))
              = Cardinality({i \in 1..Len(columns) :
                                /\ columns[i].auto_increment /\ columns[i].primary
                                /\ PrimaryCount = 1})

AutoincrementEmissionWitness ==
    /\ Generated
    /\ \E i \in 1..Len(columns) :
          /\ columns[i].auto_increment /\ PrimaryCount = 1
          /\ PositionsOf(ColumnDefinition(i), "autoincrement") # {}

(***************************************************************************)
(* C8  The conflict error is raised only when a table-level primary-key    *)
(* clause names a column set other than the inline one; a statement whose  *)
(* inline markers meet no table-level clause, or only clauses naming the   *)
(* same set, parses without it and keeps the inline flags.                 *)
(***************************************************************************)
ConflictOnlyOnDisagreement ==
    /\ err = Conflict => \E names \in TableLevelSets : names # InlinePrimaryNames
    /\ (/\ Final /\ err # "ValueError: auto_increment"
        /\ InlinePrimaryNames # {}
        /\ \A names \in TableLevelSets : names = InlinePrimaryNames) =>
            /\ pc = "returned"
            /\ \A i \in 1..Len(cols) :
                  cols[i].primary <=> (cols[i].name \in InlinePrimaryNames)

(***************************************************************************)
(* C9  Default emission: a column definition carries 'default <literal>'   *)
(* exactly when the descriptor has a default (0, False and '' included),   *)
(* after the not-null and unique markers and before the inline             *)
(* primary-key marker.                                                     *)
(***************************************************************************)
DefaultEmission ==
    Generated =>
        \A i \in 1..Len(columns) :
            LET definition == ColumnDefinition(i)
                at == PositionsOf(definition, "default")
            IN  /\ (at # {}) <=> (columns[i].default.kind # "none")
                /\ \A p \in at :
                      /\ p < Len(definition)
                      /\ <<definition[p + 1]>> = repr(columns[i].default)
                      /\ \A q \in PositionsOf(definition, "not")
                                  \cup PositionsOf(definition, "null")
                                  \cup PositionsOf(definition, "unique") : q < p
                      /\ \A q \in PositionsOf(definition, "primary") : q > p

(***************************************************************************)
(* C10  Inline default extraction: after phase 1 every column fragment     *)
(* with 'default <literal>' has the literal, without its quotes, as its    *)
(* recorded default, and every fragment without the clause has none.       *)
(***************************************************************************)
InlineDefaultExtraction ==
    pc \in {"phase1", "phase2", "returned"} =>
        \A c \in ColumnClauses :
            /\ HasKey(upheld, <<c[1]>>)
            /\ upheld[KeyIndex(upheld, <<c[1]>>)][8]
                  = IF Contains(c, "default") /\ IndexOf(c, "default") < Len(c)
                    THEN Bare(<<c[IndexOf(c, "default") + 1]>>)
                    ELSE None

====
